---- MODULE Spec2Model ----
(***************************************************************************)
(* Model of the recognition dispatch subsystem of Web-Whisper-SDK:         *)
(* src/src/speech_recognition/whisper_processor.py (class                  *)
(* WhisperProcessor: class-level model, per-instance queue, worker thread, *)
(* hand-off of results to the caller's asyncio event loop).                *)
(***************************************************************************)
EXTENDS Naturals, Sequences, FiniteSets, TLC

(* ------------------------------ bounds -------------------------------- *)

\* Total number of recognize_async calls made in one behaviour.
MaxReq == 3
\* Number of sentinel (None) items put on one instance's queue.
MaxSentinel == 1
\* Longest run of whitespace around a raw text given to the result shaping.
MaxPad == 1

(* ------------------------------ domains ------------------------------- *)

\* Identities of the WhisperProcessor objects that may be constructed.
Processors == {"p1", "p2"}
\* Identities a Thread object of one instance may take.
Slots == {1, 2}
\* The caller's asyncio event loops.
Loops == {"L1", "L2"}
\* Python None, for the string-valued fields.
None == "None"
\* Python None as a queue item (the termination signal).
Sentinel == [sentinel |-> TRUE]
\* The arguments callers pass to recognize_async (speech_id is numbered by
\* the caller: the k-th utterance submitted gets speech_id k).
Shapes ==
  { [audio |-> "A", session_id |-> "s1", callback |-> "cb", running_loop |-> "L1", prompt |-> None],
    [audio |-> "B", session_id |-> "s2", callback |-> "cb", running_loop |-> "L2", prompt |-> "p"],
    [audio |-> "A", session_id |-> "s1", callback |-> None, running_loop |-> "L1", prompt |-> None],
    [audio |-> "A", session_id |-> "s1", callback |-> "cb", running_loop |-> None, prompt |-> None] }
\* The shapes with audio "A" and loop "L1": one with a callback, one without.
MainShapes == {sh \in Shapes : sh.audio = "A" /\ sh.running_loop = "L1"}
\* The shapes with a callback and a loop: they differ in audio, session,
\* loop and prompt.
FullShapes == {sh \in Shapes : sh.callback # None /\ sh.running_loop # None}
\* The shapes of session "s1": complete, without a callback, without a loop.
SessionShapes == {sh \in Shapes : sh.session_id = "s1"}
\* The shape with audio "A", a callback and loop "L1".
PlainShapes == {sh \in MainShapes : sh.callback # None}
\* The values callers assign to the language property.
LanguageInputs == {"", None, "ja"}
\* Whitespace characters str.strip() removes.
Whitespace == {" ", "\n"}
\* Whitespace padding the model may put around a text.
Pads == {<< >>, <<" ">>}

\* The runs of whitespace the model may leave around a text.
WhitespaceRuns == UNION {[1..n -> Whitespace] : n \in 0..MaxPad}
\* The texts proper of raw model outputs: empty, and with inner whitespace.
RawCores == {<< >>, <<"b", " ", "c">>}
\* The numbers of segments of raw model outputs.
SegmentCounts == {0, 1, 2}

NoTask == [audio |-> "-", session_id |-> "-", speech_id |-> 0, callback |-> None,
           running_loop |-> None, prompt |-> None]
NoResult == [absent |-> TRUE]
NoArgs == [absent |-> TRUE]
\* No result shaping under study.
NoShaping == [raw |-> NoResult, payload |-> NoResult]

VARIABLES
  whisper_model,  \* WhisperProcessor._whisper_model: "model" or None
  created,        \* created[i]: __init__ has run for processor i
  language,       \* language[i]: self._language
  queue,          \* queue[i]: self._recognition_queue, oldest item first
  worker,         \* worker[i][s]: thread s of processor i: [pc, task, lang]
  loopReady,      \* loopReady[l]: coroutines scheduled on loop l, not yet started
  coro,           \* coro[id]: the callback coroutine (and its future) of request id
  \* ---- history (written, never read by the program) ----
  reqs,           \* the recognize_async calls, in call order: [proc, task, enqLang]
  enq,            \* enq[i]: every item ever put on queue[i] (speech ids, 0 = None)
  recognized,     \* recognized[i]: speech ids passed to _recognize_audio, in order
  usedLang,       \* usedLang[id]: language= argument given to transcribe
  getLang,        \* getLang[id]: [value, input] of the processor at dequeue
  langInput,      \* langInput[i]: last value assigned to the property, or "unset"
  outcome,        \* outcome[id]: "-", "ok", "raised", "unavailable"
  results,        \* results[id]: return value of _recognize_audio
  calls,          \* calls[id]: number of times callback(...) was called
  cbArgs,         \* cbArgs[id]: arguments of that call
  delivery,       \* delivery[id]: how the worker's wait for the future ended
  cbStarted,      \* cbStarted[l]: ids whose coroutine began to run on loop l
  viaCreate,      \* processors returned by create()
  lastCreate,     \* what the last create() returned
  shaping         \* [raw, payload]: one raw model output and the dict made of it

progVars == <<whisper_model, created, language, queue, worker, loopReady, coro>>
histVars == <<reqs, enq, recognized, usedLang, getLang, langInput, outcome, results,
              calls, cbArgs, delivery, cbStarted, viaCreate, lastCreate, shaping>>
vars == <<progVars, histVars>>

(* --------------------------- pure helpers ----------------------------- *)

RECURSIVE LStrip(_)
LStrip(s) == IF s # << >> /\ Head(s) \in Whitespace THEN LStrip(Tail(s)) ELSE s

RECURSIVE RStrip(_)
RStrip(s) ==
  IF s # << >> /\ s[Len(s)] \in Whitespace THEN RStrip(SubSeq(s, 1, Len(s) - 1)) ELSE s

\* Faulty variant: only the left side is stripped (str.lstrip()).
StripLeftOnly(s) == LStrip(s)

\* str.strip()
Strip(s) == RStrip(LStrip(s))

Thread(pc) == [pc |-> pc, task |-> NoTask, lang |-> "-"]

\* is_model_loaded()
is_model_loaded == whisper_model # None


(* ------------------- the model library (whisper) ---------------------- *)

\* Language the model detects when it is called with language=None.
Detect(audio) == IF audio = "A" THEN "en" ELSE "ja"

\* What the model hears in the audio, given the priming prompt.
Heard(audio, prompt) ==
  (IF audio = "A" THEN <<"a">> ELSE <<"b", " ", "c">>)
    \o (IF prompt = None THEN << >> ELSE <<"p">>)

\* The dicts transcribe(audio, language=lang, initial_prompt=prompt, ...) may
\* return: text, language and segments, with any padding around the texts.
RawResults(audio, lang, prompt) ==
  { [ text |-> p \o Heard(audio, prompt) \o q,
      language |-> IF lang = None THEN Detect(audio) ELSE lang,
      segments |->
        IF audio = "A"
        THEN << [start |-> 0, end |-> 1, text |-> p \o Heard(audio, prompt) \o q] >>
        ELSE << [start |-> 0, end |-> 1, text |-> p \o <<"b">> \o q],
                [start |-> 1, end |-> 2, text |-> q \o <<"c">> \o p] >> ]
    : p \in Pads, q \in Pads }

(* ---------------------- WhisperProcessor, pieces ---------------------- *)

\* __init__: self._language = "en"
DefaultLanguage == "en"

\* Faulty variant: __init__ starts a second consumer thread.
StartedThreadsTwice == {1, 2}

\* __init__: the consumer threads started for the instance's queue.
StartedThreads == {1}

\* Faulty variant: create() constructs without looking at the model.
FactoryGuardMissing == TRUE

\* create(): the condition under which an instance is constructed.
FactoryGuard == whisper_model # None

\* Faulty variant: the setter stores the value as given.
LanguageSetterVerbatim(value) == value

\* language.setter: the value stored for an assigned value.
LanguageSetter(value) == IF value = "" THEN None ELSE value

\* Faulty variant: one queue for all instances, as a class attribute would be.
RecognitionQueueShared(i) == "p1"

\* __init__: self._recognition_queue = queue.Queue(): the queue instance i
\* puts to is its own.
RecognitionQueue(i) == i

\* Faulty variant: a LIFO queue: the item goes to the head.
QueuePutFront(q, item) == <<item>> \o q

\* queue.Queue.put, as recognize_async uses it: append at the tail.
QueuePut(q, item) == Append(q, item)

\* Faulty variant: the handler puts the request again, and that works.
OnPutFailureRetry(q, task) == Append(q, task)

\* recognize_async: what "except Exception" leaves in the queue when the
\* put raised (it only logs).
OnPutFailure(q, task) == q

\* Faulty variant: a failure of the put reaches the caller.
RecognizeAsyncReturnOrRaise(putOk) == IF putOk THEN None ELSE "exception"

\* recognize_async: what the caller gets back. The function has no return
\* statement and its whole body is inside try/except Exception.
RecognizeAsyncReturn(putOk) == None

\* Faulty variant: the worker reads the head without removing it.
QueuePeek(q) == q

\* queue.Queue.get, as _worker uses it: the head leaves the queue.
QueueAfterGet(q) == Tail(q)

\* Faulty variant: "continue" where the code has "break".
OnSentinelContinue == "polling"

\* _worker: "if task is None: break".
OnSentinel == "stopped"

\* Faulty variant: the language in effect when the request was queued.
TranscribeLanguageAtEnqueue(i, task) == reqs[task.speech_id].enqLang

\* _recognize_audio: the language= argument of the transcribe call.
TranscribeLanguage(i, task) == language[i]

\* Faulty variant: the success dict also carries an error entry.
SuccessPayloadWithError(raw) ==
  [ text |-> Strip(raw.text), language |-> raw.language, segments |-> << >>,
    error |-> "" ]

\* _recognize_audio: the dict returned on success.
SuccessPayload(raw) ==
  [ text |-> Strip(raw.text),
    language |-> raw.language,
    segments |-> [ k \in 1..Len(raw.segments) |->
                     [ start |-> raw.segments[k].start,
                       end |-> raw.segments[k].end,
                       text |-> Strip(raw.segments[k].text) ] ] ]

\* Faulty variant: the error dict also carries an empty text.
ErrorPayloadWithText(e) == [error |-> e, text |-> << >>]

\* _recognize_audio: the dict returned when the model is missing or raises.
ErrorPayload(e) == [error |-> e]

\* Faulty variant: only the callback is looked at.
ShouldScheduleAnyLoop(task) == task.callback # None

\* _worker: "if callback and running_loop".
ShouldSchedule(task) == task.callback # None /\ task.running_loop # None

\* Faulty variant: every coroutine goes to one loop, whatever the request says.
TargetLoopShared(task) == "L1"

\* _worker: the loop handed to run_coroutine_threadsafe is the running_loop
\* unpacked from the task.
TargetLoop(task) == task.running_loop

\* Faulty variant: the coroutine is put ahead of those scheduled before it.
ScheduleOnLoopFirst(ready, id) == <<id>> \o ready

\* asyncio.run_coroutine_threadsafe: the coroutine joins the loop's ready
\* handles behind those scheduled before it.
ScheduleOnLoop(ready, id) == Append(ready, id)

\* Faulty variant: future.result() with no timeout: the wait ends only when
\* the coroutine is done.
WaitBoundNone(c) == c \in {"returned", "raised"}

\* future.result(timeout=5.0): the wait ends when the coroutine is done and,
\* whatever the coroutine does, when the 5 seconds are over.
WaitBound(c) == TRUE

\* Faulty variant: the task is put back on the queue for another try.
OnDeliveryFailureRequeue(q, task) == Append(q, task)

\* _worker: what the handler of a failed future.result(timeout=5.0) leaves
\* in the queue (it only logs).
OnDeliveryFailure(q, task) == q

\* Faulty variant: an exception in the loop body ends the thread.
OnWorkerErrorExit == "stopped"

\* _worker: "except Exception" around the loop body logs, and the while
\* loop goes on to the next get.
OnWorkerError == "polling"

\* Faulty variant: the callback is scheduled and not waited for.
AfterScheduleNoWait == "polling"

\* _worker: after run_coroutine_threadsafe the thread blocks in
\* future.result(timeout=5.0).
AfterSchedule == "waiting"

\* _worker, from the return of _recognize_audio to the wait on the future.
\* ok: callback(...) and run_coroutine_threadsafe(...) did not raise.
Deliver(i, s, task, res, ok) ==
  LET id == task.speech_id IN
  /\ results' = [results EXCEPT ![id] = res]
  /\ IF ShouldSchedule(task)
     THEN /\ calls' = [calls EXCEPT ![id] = @ + 1]
          /\ cbArgs' = [cbArgs EXCEPT ![id] =
                          [ result |-> res, session_id |-> task.session_id,
                            speech_id |-> task.speech_id ]]
          /\ IF ok
             THEN /\ coro' = [coro EXCEPT ![id] = "ready"]
                  /\ loopReady' = [loopReady EXCEPT ![TargetLoop(task)] =
                                     ScheduleOnLoop(@, id)]
                  /\ worker' = [worker EXCEPT ![i][s] =
                                  [pc |-> AfterSchedule, task |-> task, lang |-> "-"]]
                  /\ UNCHANGED delivery
             ELSE /\ worker' = [worker EXCEPT ![i][s] = Thread(OnWorkerError)]
                  /\ delivery' = [delivery EXCEPT ![id] = "schedfail"]
                  /\ UNCHANGED <<coro, loopReady>>
     ELSE /\ worker' = [worker EXCEPT ![i][s] = Thread("polling")]
          /\ delivery' = [delivery EXCEPT ![id] = "dropped"]
          /\ UNCHANGED <<calls, cbArgs, coro, loopReady>>

(* ------------------------------- Init --------------------------------- *)

InitObjects ==
  /\ whisper_model \in {"model", None}
  /\ created = [i \in Processors |-> FALSE]
  /\ language = [i \in Processors |-> "-"]
  /\ queue = [i \in Processors |-> << >>]
  /\ worker = [i \in Processors |-> [s \in Slots |-> Thread("none")]]
  /\ loopReady = [l \in Loops |-> << >>]
  /\ coro = << >>
  /\ reqs = << >>
  /\ enq = [i \in Processors |-> << >>]
  /\ recognized = [i \in Processors |-> << >>]
  /\ usedLang = << >>
  /\ getLang = << >>
  /\ langInput = [i \in Processors |-> "unset"]
  /\ outcome = << >>
  /\ results = << >>
  /\ calls = << >>
  /\ cbArgs = << >>
  /\ delivery = << >>
  /\ cbStarted = [l \in Loops |-> << >>]
  /\ viaCreate = {}
  /\ lastCreate = "uncalled"

Init == InitObjects /\ shaping = NoShaping

\* The raw dicts transcribe may return for the result shaping: a text and
\* segments, every text with any run of whitespace on either side.
RawOutputs ==
  LET texts(cores) == { p \o c \o q : p \in WhitespaceRuns, q \in WhitespaceRuns,
                                        c \in cores }
      segs(n) == { [ k \in 1..n |-> [start |-> k - 1, end |-> k, text |-> f[k]] ] :
                     f \in [1..n -> texts({<<"a">>})] }
  IN { [text |-> t, language |-> "en", segments |-> sg] :
         t \in texts(RawCores), sg \in UNION {segs(n) : n \in SegmentCounts} }

\* The state in which transcribe has just returned some raw output.
InitShaping ==
  /\ InitObjects
  /\ whisper_model = "model"
  /\ shaping \in { [raw |-> r, payload |-> NoResult] : r \in RawOutputs }

(* ------------------------------ actions ------------------------------- *)

\* WhisperProcessor.__init__
InitInstance(i) ==
  /\ created' = [created EXCEPT ![i] = TRUE]
  /\ queue' = [queue EXCEPT ![i] = << >>]
  /\ worker' = [worker EXCEPT ![i] =
                  [s \in Slots |-> IF s \in StartedThreads THEN Thread("polling")
                                                           ELSE Thread("none")]]
  /\ language' = [language EXCEPT ![i] = DefaultLanguage]

\* WhisperProcessor(): direct construction.
Construct(i) ==
  /\ ~created[i]
  /\ InitInstance(i)
  /\ UNCHANGED <<whisper_model, loopReady, coro, histVars>>

\* WhisperProcessor.create()
Create(i) ==
  /\ ~created[i]
  /\ IF FactoryGuard
     THEN /\ InitInstance(i)
          /\ viaCreate' = viaCreate \cup {i}
          /\ lastCreate' = i
     ELSE /\ lastCreate' = None
          /\ UNCHANGED <<created, queue, worker, language, viaCreate>>
  /\ UNCHANGED <<shaping, whisper_model, loopReady, coro, reqs, enq, recognized, usedLang,
                 getLang, langInput, outcome, results, calls, cbArgs, delivery,
                 cbStarted>>

\* processor.language = value
SetLanguage(i, value) ==
  /\ created[i]
  /\ language' = [language EXCEPT ![i] = LanguageSetter(value)]
  /\ langInput' = [langInput EXCEPT ![i] = value]
  /\ UNCHANGED <<shaping, whisper_model, created, queue, worker, loopReady, coro, reqs, enq,
                 recognized, usedLang, getLang, outcome, results, calls, cbArgs,
                 delivery, cbStarted, viaCreate, lastCreate>>

\* recognize_async(audio, session_id, speech_id, callback, running_loop, prompt)
RecognizeAsync(i, shape) ==
  LET id == Len(reqs) + 1
      task == [ audio |-> shape.audio, session_id |-> shape.session_id,
                speech_id |-> id, callback |-> shape.callback,
                running_loop |-> shape.running_loop, prompt |-> shape.prompt ]
  IN
  /\ created[i]
  /\ Len(reqs) < MaxReq
  /\ queue' = [queue EXCEPT ![RecognitionQueue(i)] = QueuePut(@, task)]
  /\ reqs' = Append(reqs, [proc |-> i, task |-> task, enqLang |-> language[i],
                           ret |-> RecognizeAsyncReturn(TRUE)])
  /\ enq' = [enq EXCEPT ![i] = Append(@, id)]
  /\ coro' = Append(coro, "unscheduled")
  /\ usedLang' = Append(usedLang, "-")
  /\ getLang' = Append(getLang, [value |-> "-", input |-> "-"])
  /\ outcome' = Append(outcome, "-")
  /\ results' = Append(results, NoResult)
  /\ calls' = Append(calls, 0)
  /\ cbArgs' = Append(cbArgs, NoArgs)
  /\ delivery' = Append(delivery, "-")
  /\ UNCHANGED <<shaping, whisper_model, created, language, worker, loopReady, recognized,
                 langInput, cbStarted, viaCreate, lastCreate>>

\* recognize_async when the put raises: the exception is logged, nothing is
\* queued.
RecognizeAsyncPutFails(i, shape) ==
  LET id == Len(reqs) + 1
      task == [ audio |-> shape.audio, session_id |-> shape.session_id,
                speech_id |-> id, callback |-> shape.callback,
                running_loop |-> shape.running_loop, prompt |-> shape.prompt ]
  IN
  /\ created[i]
  /\ Len(reqs) < MaxReq
  /\ queue' = [queue EXCEPT ![i] = OnPutFailure(@, task)]
  /\ reqs' = Append(reqs, [proc |-> i, task |-> task, enqLang |-> language[i],
                           ret |-> RecognizeAsyncReturn(FALSE)])
  /\ coro' = Append(coro, "unscheduled")
  /\ usedLang' = Append(usedLang, "-")
  /\ getLang' = Append(getLang, [value |-> "-", input |-> "-"])
  /\ outcome' = Append(outcome, "-")
  /\ results' = Append(results, NoResult)
  /\ calls' = Append(calls, 0)
  /\ cbArgs' = Append(cbArgs, NoArgs)
  /\ delivery' = Append(delivery, "-")
  /\ UNCHANGED <<shaping, whisper_model, created, language, worker, loopReady, enq,
                 recognized, langInput, cbStarted, viaCreate, lastCreate>>

\* The termination signal: None is put on the instance's queue.
EnqueueSentinel(i) ==
  /\ created[i]
  /\ Cardinality({k \in 1..Len(enq[i]) : enq[i][k] = 0}) < MaxSentinel
  /\ queue' = [queue EXCEPT ![i] = QueuePut(@, Sentinel)]
  /\ enq' = [enq EXCEPT ![i] = Append(@, 0)]
  /\ UNCHANGED <<shaping, whisper_model, created, language, worker, loopReady, coro, reqs,
                 recognized, usedLang, getLang, langInput, outcome, results, calls,
                 cbArgs, delivery, cbStarted, viaCreate, lastCreate>>

\* _worker: queue.get(timeout=1) raises queue.Empty; the loop continues.
WorkerPollEmpty(i, s) ==
  /\ worker[i][s].pc = "polling"
  /\ queue[i] = << >>
  /\ UNCHANGED vars

\* _worker: an item is dequeued. None ends the loop; a task is unpacked and
\* passed to _recognize_audio, which returns at once when the model is
\* missing and otherwise enters transcribe with language=self._language.
WorkerGet(i, s, ok) ==
  /\ worker[i][s].pc = "polling"
  /\ queue[i] # << >>
  /\ LET task == Head(queue[i]) IN
     /\ queue' = [queue EXCEPT ![i] = QueueAfterGet(@)]
     /\ IF task = Sentinel
        THEN /\ worker' = [worker EXCEPT ![i][s] = Thread(OnSentinel)]
             /\ UNCHANGED <<loopReady, coro, recognized, usedLang, getLang, outcome,
                            results, calls, cbArgs, delivery>>
        ELSE /\ recognized' = [recognized EXCEPT ![i] = Append(@, task.speech_id)]
             /\ getLang' = [getLang EXCEPT ![task.speech_id] =
                              [value |-> language[i], input |-> langInput[i]]]
             /\ IF whisper_model = None
                THEN /\ outcome' = [outcome EXCEPT ![task.speech_id] = "unavailable"]
                     /\ Deliver(i, s, task, ErrorPayload("Whisper model not available"), ok)
                     /\ UNCHANGED usedLang
                ELSE /\ worker' = [worker EXCEPT ![i][s] =
                                     [ pc |-> "transcribing", task |-> task,
                                       lang |-> TranscribeLanguage(i, task) ]]
                     /\ usedLang' = [usedLang EXCEPT ![task.speech_id] =
                                       TranscribeLanguage(i, task)]
                     /\ UNCHANGED <<loopReady, coro, outcome, results, calls, cbArgs,
                                    delivery>>
  /\ UNCHANGED <<shaping, whisper_model, created, language, reqs, enq, langInput, cbStarted,
                 viaCreate, lastCreate>>

\* _recognize_audio: transcribe returns; the result is shaped and delivered.
TranscribeReturn(i, s, raw, ok) ==
  LET t == worker[i][s] IN
  /\ t.pc = "transcribing"
  /\ raw \in RawResults(t.task.audio, t.lang, t.task.prompt)
  /\ outcome' = [outcome EXCEPT ![t.task.speech_id] = "ok"]
  /\ Deliver(i, s, t.task, SuccessPayload(raw), ok)
  /\ UNCHANGED <<shaping, whisper_model, created, language, queue, reqs, enq, recognized,
                 usedLang, getLang, langInput, cbStarted, viaCreate, lastCreate>>

\* _recognize_audio: transcribe raises; "except Exception" returns the error.
TranscribeRaise(i, s, ok) ==
  LET t == worker[i][s] IN
  /\ t.pc = "transcribing"
  /\ outcome' = [outcome EXCEPT ![t.task.speech_id] = "raised"]
  /\ Deliver(i, s, t.task, ErrorPayload("boom"), ok)
  /\ UNCHANGED <<shaping, whisper_model, created, language, queue, reqs, enq, recognized,
                 usedLang, getLang, langInput, cbStarted, viaCreate, lastCreate>>

\* _worker: future.result(timeout=5.0) ends. how: "ok" (the coroutine
\* returned), "raised" (it raised), "timeout" (neither within 5 seconds).
WaitEnds(i, s, how) ==
  LET t == worker[i][s]
      id == t.task.speech_id
  IN
  /\ t.pc = "waiting"
  /\ WaitBound(coro[id])
  /\ how = CASE coro[id] = "returned" -> "ok"
             [] coro[id] = "raised" -> "raised"
             [] OTHER -> "timeout"
  /\ delivery' = [delivery EXCEPT ![id] = how]
  /\ queue' = [queue EXCEPT ![i] =
                 IF how = "ok" THEN @ ELSE OnDeliveryFailure(@, t.task)]
  /\ worker' = [worker EXCEPT ![i][s] = Thread("polling")]
  /\ UNCHANGED <<shaping, whisper_model, created, language, loopReady, coro, reqs, enq,
                 recognized, usedLang, getLang, langInput, outcome, results, calls,
                 cbArgs, cbStarted, viaCreate, lastCreate>>

\* The event loop runs its oldest ready handle: the coroutine starts.
LoopRun(l) ==
  /\ loopReady[l] # << >>
  /\ LET id == Head(loopReady[l]) IN
     /\ coro' = [coro EXCEPT ![id] = "running"]
     /\ cbStarted' = [cbStarted EXCEPT ![l] = Append(@, id)]
  /\ loopReady' = [loopReady EXCEPT ![l] = Tail(@)]
  /\ UNCHANGED <<shaping, whisper_model, created, language, queue, worker, reqs, enq,
                 recognized, usedLang, getLang, langInput, outcome, results, calls,
                 cbArgs, delivery, viaCreate, lastCreate>>

\* A started callback coroutine finishes: it returns (the result is handed
\* to the caller) or raises.
CoroEnds(id, how) ==
  /\ id \in 1..Len(coro)
  /\ coro[id] = "running"
  /\ how \in {"returned", "raised"}
  /\ coro' = [coro EXCEPT ![id] = how]
  /\ UNCHANGED <<whisper_model, created, language, queue, worker, loopReady, histVars>>

\* _recognize_audio, lines 108-119: the success dict is made of the raw
\* output.
ShapeResult ==
  /\ shaping.raw # NoResult
  /\ shaping.payload = NoResult
  /\ shaping' = [shaping EXCEPT !.payload = SuccessPayload(shaping.raw)]
  /\ UNCHANGED <<progVars, reqs, enq, recognized, usedLang, getLang, langInput,
                 outcome, results, calls, cbArgs, delivery, cbStarted, viaCreate,
                 lastCreate>>

\* One processor made by create(); callers submit utterances with and
\* without a callback on one loop, and may put the termination signal.
Next ==
  \/ \E i \in {"p1"} : Create(i)
  \/ \E i \in {"p1"}, sh \in MainShapes : RecognizeAsync(i, sh)
  \/ \E i \in {"p1"} : EnqueueSentinel(i)
  \/ \E i \in {"p1"}, s \in Slots : WorkerPollEmpty(i, s)
  \/ \E i \in {"p1"}, s \in Slots, ok \in BOOLEAN : WorkerGet(i, s, ok)
  \/ \E i \in {"p1"}, s \in Slots, ok \in BOOLEAN :
       \E raw \in RawResults(worker[i][s].task.audio, worker[i][s].lang,
                             worker[i][s].task.prompt) :
         TranscribeReturn(i, s, raw, ok)
  \/ \E i \in {"p1"}, s \in Slots, ok \in BOOLEAN : TranscribeRaise(i, s, ok)
  \/ \E i \in {"p1"}, s \in Slots, how \in {"ok", "raised", "timeout"} :
       WaitEnds(i, s, how)
  \/ \E l \in Loops : LoopRun(l)
  \/ \E id \in 1..MaxReq, how \in {"returned", "raised"} : CoroEnds(id, how)

Spec == Init /\ [][Next]_vars

\* The same processor and callers when no termination signal is ever put:
\* the worker runs for ever.
NextNoStop ==
  \/ \E i \in {"p1"} : Create(i)
  \/ \E i \in {"p1"}, sh \in MainShapes : RecognizeAsync(i, sh)
  \/ \E i \in {"p1"}, s \in Slots : WorkerPollEmpty(i, s)
  \/ \E i \in {"p1"}, s \in Slots, ok \in BOOLEAN : WorkerGet(i, s, ok)
  \/ \E i \in {"p1"}, s \in Slots, ok \in BOOLEAN :
       \E raw \in RawResults(worker[i][s].task.audio, worker[i][s].lang,
                             worker[i][s].task.prompt) :
         TranscribeReturn(i, s, raw, ok)
  \/ \E i \in {"p1"}, s \in Slots, ok \in BOOLEAN : TranscribeRaise(i, s, ok)
  \/ \E i \in {"p1"}, s \in Slots, how \in {"ok", "raised", "timeout"} :
       WaitEnds(i, s, how)
  \/ \E l \in Loops : LoopRun(l)
  \/ \E id \in 1..MaxReq, how \in {"returned", "raised"} : CoroEnds(id, how)

SpecNoStop == Init /\ [][NextNoStop]_vars

\* One processor whose language property is assigned while utterances are
\* queued and transcribed; every callback returns within the 5 seconds.
NextLang ==
  \/ \E i \in {"p1"} : Construct(i)
  \/ \E i \in {"p1"}, v \in LanguageInputs : SetLanguage(i, v)
  \/ \E i \in {"p1"}, sh \in PlainShapes : RecognizeAsync(i, sh)
  \/ \E i \in {"p1"}, s \in Slots : WorkerGet(i, s, TRUE)
  \/ \E i \in {"p1"}, s \in Slots :
       \E raw \in RawResults(worker[i][s].task.audio, worker[i][s].lang,
                             worker[i][s].task.prompt) :
         TranscribeReturn(i, s, raw, TRUE)
  \/ \E i \in {"p1"}, s \in Slots : WaitEnds(i, s, "ok")
  \/ \E l \in Loops : LoopRun(l)
  \/ \E id \in 1..MaxReq : CoroEnds(id, "returned")

SpecLang == Init /\ [][NextLang]_vars

\* One processor; a put of recognize_async may fail.
NextPut ==
  \/ \E i \in {"p1"} : Create(i)
  \/ \E i \in {"p1"}, sh \in PlainShapes : RecognizeAsync(i, sh)
  \/ \E i \in {"p1"}, sh \in PlainShapes : RecognizeAsyncPutFails(i, sh)
  \/ \E i \in {"p1"}, s \in Slots : WorkerGet(i, s, TRUE)
  \/ \E i \in {"p1"}, s \in Slots :
       \E raw \in RawResults(worker[i][s].task.audio, worker[i][s].lang,
                             worker[i][s].task.prompt) :
         TranscribeReturn(i, s, raw, TRUE)
  \/ \E i \in {"p1"}, s \in Slots, how \in {"ok", "raised", "timeout"} :
       WaitEnds(i, s, how)
  \/ \E l \in Loops : LoopRun(l)
  \/ \E id \in 1..MaxReq, how \in {"returned", "raised"} : CoroEnds(id, how)

SpecPut == Init /\ [][NextPut]_vars

\* One processor; callers of two sessions, each with its own audio, prompt
\* and event loop; every callback returns.
NextCorr ==
  \/ \E i \in {"p1"} : Create(i)
  \/ \E i \in {"p1"}, sh \in FullShapes : RecognizeAsync(i, sh)
  \/ \E i \in {"p1"}, s \in Slots : WorkerGet(i, s, TRUE)
  \/ \E i \in {"p1"}, s \in Slots :
       \E raw \in RawResults(worker[i][s].task.audio, worker[i][s].lang,
                             worker[i][s].task.prompt) :
         TranscribeReturn(i, s, raw, TRUE)
  \/ \E i \in {"p1"}, s \in Slots : TranscribeRaise(i, s, TRUE)
  \/ \E i \in {"p1"}, s \in Slots, how \in {"ok", "timeout"} : WaitEnds(i, s, how)
  \/ \E l \in Loops : LoopRun(l)
  \/ \E id \in 1..MaxReq : CoroEnds(id, "returned")

SpecCorr == Init /\ [][NextCorr]_vars

\* One directly constructed processor, with or without a loaded model; the
\* model returns or raises; every callback returns, in time or late.
NextPayload ==
  \/ \E i \in {"p1"} : Construct(i)
  \/ \E i \in {"p1"}, sh \in PlainShapes : RecognizeAsync(i, sh)
  \/ \E i \in {"p1"}, s \in Slots : WorkerGet(i, s, TRUE)
  \/ \E i \in {"p1"}, s \in Slots :
       \E raw \in RawResults(worker[i][s].task.audio, worker[i][s].lang,
                             worker[i][s].task.prompt) :
         TranscribeReturn(i, s, raw, TRUE)
  \/ \E i \in {"p1"}, s \in Slots : TranscribeRaise(i, s, TRUE)
  \/ \E i \in {"p1"}, s \in Slots, how \in {"ok", "timeout"} : WaitEnds(i, s, how)
  \/ \E l \in Loops : LoopRun(l)
  \/ \E id \in 1..MaxReq : CoroEnds(id, "returned")

SpecPayload == Init /\ [][NextPayload]_vars

\* The result shaping alone, on every raw output.
NextShaping == ShapeResult

SpecShaping == InitShaping /\ [][NextShaping]_vars

\* One processor with a termination signal; the event loop runs callbacks
\* when it pleases, if ever.
NextFair ==
  \/ \E i \in {"p1"} : Create(i)
  \/ \E i \in {"p1"}, sh \in PlainShapes : RecognizeAsync(i, sh)
  \/ \E i \in {"p1"} : EnqueueSentinel(i)
  \/ \E i \in {"p1"}, s \in Slots : WorkerGet(i, s, TRUE)
  \/ \E i \in {"p1"}, s \in Slots :
       \E raw \in RawResults(worker[i][s].task.audio, worker[i][s].lang,
                             worker[i][s].task.prompt) :
         TranscribeReturn(i, s, raw, TRUE)
  \/ \E i \in {"p1"}, s \in Slots, how \in {"ok", "timeout"} : WaitEnds(i, s, how)
  \/ \E l \in Loops : LoopRun(l)
  \/ \E id \in 1..MaxReq : CoroEnds(id, "returned")

\* The worker thread is scheduled fairly and a transcribe call returns;
\* nothing is assumed of the event loops.
FairWorker ==
  \A i \in {"p1"}, s \in Slots :
    /\ WF_vars(WorkerGet(i, s, TRUE))
    /\ WF_vars(\E raw \in RawResults(worker[i][s].task.audio, worker[i][s].lang,
                                     worker[i][s].task.prompt) :
                 TranscribeReturn(i, s, raw, TRUE))
    /\ WF_vars(\E how \in {"ok", "timeout"} : WaitEnds(i, s, how))

SpecFair == Init /\ [][NextFair]_vars /\ FairWorker

\* Two processors made by create(), sharing the class-level model.
NextTwo ==
  \/ \E i \in Processors : Create(i)
  \/ \E i \in Processors, sh \in PlainShapes : RecognizeAsync(i, sh)
  \/ \E i \in Processors, s \in Slots : WorkerGet(i, s, TRUE)
  \/ \E i \in Processors, s \in Slots :
       \E raw \in RawResults(worker[i][s].task.audio, worker[i][s].lang,
                             worker[i][s].task.prompt) :
         TranscribeReturn(i, s, raw, TRUE)
  \/ \E i \in Processors, s \in Slots, how \in {"ok", "timeout"} : WaitEnds(i, s, how)
  \/ \E l \in Loops : LoopRun(l)
  \/ \E id \in 1..MaxReq : CoroEnds(id, "returned")

SpecTwo == Init /\ [][NextTwo]_vars

\* One processor; callers submit with and without a callback, with and
\* without an event loop.
NextDrop ==
  \/ \E i \in {"p1"} : Create(i)
  \/ \E i \in {"p1"}, sh \in SessionShapes : RecognizeAsync(i, sh)
  \/ \E i \in {"p1"}, s \in Slots : WorkerGet(i, s, TRUE)
  \/ \E i \in {"p1"}, s \in Slots :
       \E raw \in RawResults(worker[i][s].task.audio, worker[i][s].lang,
                             worker[i][s].task.prompt) :
         TranscribeReturn(i, s, raw, TRUE)
  \/ \E i \in {"p1"}, s \in Slots : TranscribeRaise(i, s, TRUE)
  \/ \E i \in {"p1"}, s \in Slots, how \in {"ok", "timeout"} : WaitEnds(i, s, how)
  \/ \E l \in Loops : LoopRun(l)
  \/ \E id \in 1..MaxReq : CoroEnds(id, "returned")

SpecDrop == Init /\ [][NextDrop]_vars

(* ------------------------ helpers of the claims ----------------------- *)

Ids == 1..Len(reqs)

\* The speech ids of the items of a queue, 0 for None.
QueueIds(q) == [k \in 1..Len(q) |-> IF q[k] = Sentinel THEN 0 ELSE q[k].speech_id]

\* How many times x occurs in the sequence sq.
Count(sq, x) == Cardinality({k \in 1..Len(sq) : sq[k] = x})

\* The index of the first None put on queue i (past the end when there is none).
FirstSentinel(i) ==
  IF Count(enq[i], 0) = 0 THEN Len(enq[i]) + 1
  ELSE CHOOSE k \in 1..Len(enq[i]) :
         enq[i][k] = 0 /\ \A j \in 1..(k - 1) : enq[i][j] # 0

\* The coroutine of request id has begun to run on its loop.
Started(id) == coro[id] \in {"running", "returned", "raised"}

(* ------------------------------- claims ------------------------------- *)

\* C1: on an instance whose queue was given no sentinel, the requests passed
\* to _recognize_audio so far, followed by those still queued, are exactly
\* the requests submitted, in submission order: each request is recognized
\* once, none skipped, duplicated or reordered.
C1_FifoExactlyOnce ==
  \A i \in Processors :
    Count(enq[i], 0) = 0 => recognized[i] \o QueueIds(queue[i]) = enq[i]

\* C1 witness: three requests recognized in order after the first
\* transcription raised and a delivery failed.
C1_Witness ==
  \E i \in Processors :
    /\ Count(enq[i], 0) = 0
    /\ Len(recognized[i]) >= 3
    /\ queue[i] = << >>
    /\ outcome[recognized[i][1]] = "raised"
    /\ \E id \in Ids : delivery[id] \in {"timeout", "raised", "schedfail"}

\* C2: the callback of a request is called at most once and its coroutine
\* starts at most once, and only after the worker dequeued the request and
\* _recognize_audio returned for it; a request still queued has no call.
C2_CallbackAtMostOnce ==
  \A id \in Ids :
    LET i == reqs[id].proc IN
    /\ calls[id] <= 1
    /\ \A l \in Loops : Count(cbStarted[l], id) + Count(loopReady[l], id) <= 1
    /\ (calls[id] = 1 \/ coro[id] # "unscheduled") =>
         /\ Count(recognized[i], id) = 1
         /\ results[id] # NoResult
         /\ Count(QueueIds(queue[i]), id) = 0
    /\ Count(QueueIds(queue[i]), id) > 0 =>
         calls[id] = 0 /\ coro[id] = "unscheduled"

\* C2 witness: one callback has run to its end while a later request is
\* still queued.
C2_Witness ==
  \E a, b \in Ids :
    /\ calls[a] = 1 /\ coro[a] = "returned"
    /\ Count(QueueIds(queue[reqs[b].proc]), b) = 1

\* C3: an instance has exactly one consumer thread, so at most one call of
\* transcribe is in progress for it.
C3_InferenceSerialized ==
  \A i \in Processors :
    /\ created[i] => Cardinality({s \in Slots : worker[i][s].pc # "none"}) = 1
    /\ Cardinality({s \in Slots : worker[i][s].pc = "transcribing"}) <= 1

\* C3 witness: a transcription is in progress while two more requests wait.
C3_Witness ==
  \E i \in Processors :
    /\ \E s \in Slots : worker[i][s].pc = "transcribing"
    /\ Len(queue[i]) >= 2

\* C4: on one loop, the callbacks of requests of one instance begin to run
\* in submission order, and a later request's callback never begins while
\* an earlier one, scheduled on that loop, has not begun.
C4_CallbacksInOrder ==
  /\ \A l \in Loops : \A m, n \in 1..Len(cbStarted[l]) :
       (m < n /\ reqs[cbStarted[l][m]].proc = reqs[cbStarted[l][n]].proc)
         => cbStarted[l][m] < cbStarted[l][n]
  /\ \A a, b \in Ids :
       ( /\ a < b
         /\ reqs[a].proc = reqs[b].proc
         /\ reqs[a].task.running_loop = reqs[b].task.running_loop
         /\ ShouldSchedule(reqs[a].task)
         /\ Started(b) )
       => (Started(a) \/ delivery[a] = "schedfail")

\* C4 witness: the first callback was slow (the worker's wait timed out) and
\* the second request's callback has begun after it.
C4_Witness ==
  \E a, b \in Ids :
    /\ a < b
    /\ reqs[a].proc = reqs[b].proc
    /\ delivery[a] = "timeout"
    /\ Started(a) /\ Started(b)

\* C5 as claimed: the language given to the model for a request is the one
\* in effect when recognize_async was called for it.
C5_LanguageFixedAtEnqueue ==
  \A id \in Ids : usedLang[id] # "-" => usedLang[id] = reqs[id].enqLang

\* C5 amended: the queued tuple (audio, ids, callback, loop, prompt) is never
\* changed, but the language is not part of it: the model is given the
\* processor's language as it is when the worker takes the request up.
C5_LanguageReadAtTranscription ==
  /\ \A i \in Processors : \A k \in 1..Len(queue[i]) :
       queue[i][k] # Sentinel => queue[i][k] = reqs[queue[i][k].speech_id].task
  /\ \A i \in Processors, s \in Slots :
       worker[i][s].pc \in {"transcribing", "waiting"}
         => worker[i][s].task = reqs[worker[i][s].task.speech_id].task
  /\ \A id \in Ids :
       usedLang[id] # "-" =>
         /\ usedLang[id] = getLang[id].value
         /\ outcome[id] = "ok" =>
              results[id].language =
                IF getLang[id].value = None THEN Detect(reqs[id].task.audio)
                                            ELSE getLang[id].value

\* C5 witness: the language was changed between a request's submission and
\* its transcription, and the transcription used the new one.
C5_Witness ==
  \E id \in Ids :
    /\ outcome[id] = "ok"
    /\ usedLang[id] # reqs[id].enqLang
    /\ results[id].language # reqs[id].enqLang

\* C6 as claimed: once the wait for a request's delivery timed out or
\* raised, its callback never completes.
C6_FailedDeliveryNeverCompletes ==
  \A id \in Ids : delivery[id] \in {"timeout", "raised"} => coro[id] # "returned"

\* C6 amended: after a timed-out or raised delivery the worker has moved on
\* and the request is never queued, recognized or called back again; a
\* callback that raised never completes (one that timed out may, later).
C6_FailedDeliveryNotRetried ==
  \A id \in Ids :
    delivery[id] \in {"timeout", "raised"} =>
      LET i == reqs[id].proc IN
      /\ calls[id] = 1
      /\ Count(recognized[i], id) = 1
      /\ Count(QueueIds(queue[i]), id) = 0
      /\ \A s \in Slots : worker[i][s].task.speech_id # id
      /\ \A l \in Loops :
           Count(cbStarted[l], id) + Count(loopReady[l], id)
             = IF l = reqs[id].task.running_loop THEN 1 ELSE 0
      /\ delivery[id] = "raised" => coro[id] = "raised"

\* C6 witness: the wait timed out and the callback completed afterwards.
C6_Witness ==
  \E id \in Ids : delivery[id] = "timeout" /\ coro[id] = "returned"

\* C7: when the model raised for a request, _recognize_audio returned a dict
\* with the error field alone, and the callback (when the request has one
\* and a loop) was called with that dict and the request's identifiers and
\* scheduled unless the scheduling itself raised.
C7_ModelErrorDelivered ==
  \A id \in Ids :
    outcome[id] = "raised" =>
      /\ DOMAIN results[id] = {"error"}
      /\ ShouldSchedule(reqs[id].task) =>
           /\ calls[id] = 1
           /\ cbArgs[id] = [ result |-> results[id],
                             session_id |-> reqs[id].task.session_id,
                             speech_id |-> id ]
           /\ delivery[id] # "schedfail" => coro[id] # "unscheduled"
      /\ ~ShouldSchedule(reqs[id].task) => calls[id] = 0

\* C7 witness: the model raised and the callback ran to its end with the
\* error payload.
C7_Witness ==
  \E id \in Ids :
    /\ outcome[id] = "raised"
    /\ coro[id] = "returned"
    /\ DOMAIN cbArgs[id].result = {"error"}

\* C8 as claimed: with the language set to "" and with the language never
\* set, the model is called with language=None.
C8_EmptyAndUnsetAutoDetect ==
  \A id \in Ids :
    (usedLang[id] # "-" /\ getLang[id].input \in {"", "unset"})
      => usedLang[id] = None

\* C8 amended: setting the language to "" is the same as setting it to
\* None (language=None, the detected language in the payload); a processor
\* whose language was never set calls the model with "en".
C8_EmptyIsNoneDefaultIsEn ==
  \A id \in Ids :
    usedLang[id] # "-" =>
      /\ getLang[id].input \in {"", None} =>
           /\ usedLang[id] = None
           /\ outcome[id] = "ok" => results[id].language = Detect(reqs[id].task.audio)
      /\ getLang[id].input = "unset" =>
           /\ usedLang[id] = "en"
           /\ outcome[id] = "ok" => results[id].language = "en"

\* C8 witness: one request transcribed under "" and one under None, with
\* equal payloads.
C8_Witness ==
  \E a, b \in Ids :
    /\ getLang[a].input = "" /\ getLang[b].input = None
    /\ outcome[a] = "ok" /\ outcome[b] = "ok"
    /\ results[a] = results[b]

\* C9: with the model missing, create() returns None and makes no instance,
\* queue or thread; every instance create() returned exists with the model
\* loaded and has exactly one worker thread, which runs unless it took the
\* sentinel.
C9_FactoryGuarded ==
  /\ ~is_model_loaded =>
       /\ viaCreate = {}
       /\ lastCreate \in {"uncalled", None}
       /\ \A i \in Processors :
            ~created[i] /\ \A s \in Slots : worker[i][s].pc = "none"
  /\ is_model_loaded => lastCreate # None
  /\ \A i \in viaCreate :
       /\ created[i]
       /\ Cardinality({s \in Slots : worker[i][s].pc # "none"}) = 1
       /\ \A s \in Slots :
            worker[i][s].pc = "stopped" => Count(enq[i], 0) > Count(QueueIds(queue[i]), 0)

\* C9 witness: create() was called with the model missing and gave None.
C9_Witness == ~is_model_loaded /\ lastCreate = None

\* C10: a worker that stopped has recognized exactly the requests queued
\* ahead of the first sentinel, in order; and as soon as a sentinel has left
\* the queue the worker is stopped.
C10_SentinelDrains ==
  \A i \in Processors :
    /\ Count(enq[i], 0) > Count(QueueIds(queue[i]), 0)
         => \E s \in Slots : worker[i][s].pc = "stopped"
    /\ (\E s \in Slots : worker[i][s].pc = "stopped")
         => recognized[i] = SubSeq(enq[i], 1, FirstSentinel(i) - 1)

\* C10 witness: the worker stopped after recognizing two requests that were
\* queued ahead of the sentinel.
C10_Witness ==
  \E i \in Processors :
    /\ \E s \in Slots : worker[i][s].pc = "stopped"
    /\ Len(recognized[i]) >= 2

\* The put of request id failed: the request never entered its queue.
PutFailed(id) == Count(enq[reqs[id].proc], id) = 0

\* C11, every call: a call of recognize_async returns None to the caller
\* and changes the program state by at most one append of the request to
\* the queue of its instance.
C11_CallStep ==
  Len(reqs') = Len(reqs) + 1 =>
    LET id == Len(reqs')
        i == reqs'[id].proc
    IN
    /\ reqs'[id].ret = None
    /\ UNCHANGED <<shaping, whisper_model, created, language, worker, loopReady>>
    /\ coro' = Append(coro, "unscheduled")
    /\ \A j \in Processors \ {i} : queue'[j] = queue[j]
    /\ IF Count(enq'[i], id) = 1
       THEN queue'[i] = Append(queue[i], reqs'[id].task)
       ELSE queue'[i] = queue[i]

\* C11: recognize_async is always possible on an existing instance (it does
\* not wait for the worker or the queue); every call is as C11_CallStep
\* says; a request whose put failed is never queued, recognized or called
\* back.
C11_SubmitNeverBlocksOrRaises ==
  /\ [] (\A i \in Processors :
           (created[i] /\ Len(reqs) < MaxReq) =>
             \A sh \in PlainShapes : ENABLED RecognizeAsync(i, sh))
  /\ [] (\A id \in Ids :
           PutFailed(id) =>
             /\ Count(QueueIds(queue[reqs[id].proc]), id) = 0
             /\ Count(recognized[reqs[id].proc], id) = 0
             /\ outcome[id] = "-" /\ results[id] = NoResult
             /\ calls[id] = 0 /\ coro[id] = "unscheduled")
  /\ [][C11_CallStep]_vars

\* C11 witness: a request whose put failed is still without a callback after
\* a request submitted later was delivered.
C11_Witness ==
  \E a, b \in Ids :
    /\ a < b
    /\ PutFailed(a) /\ reqs[a].ret = None /\ calls[a] = 0
    /\ coro[b] = "returned"

\* The payloads _recognize_audio can return for the audio and prompt of
\* request id, given the language used for it.
PayloadsOf(id) ==
  { SuccessPayload(raw) :
      raw \in RawResults(reqs[id].task.audio, usedLang[id], reqs[id].task.prompt) }
    \cup {ErrorPayload("boom"), ErrorPayload("Whisper model not available")}

\* C12: whenever a callback was called and scheduled, its payload is a result
\* of recognizing the audio and prompt of the request whose session_id and
\* speech_id are passed with it, and its coroutine is on the loop of that
\* same request and on no other.
C12_Correlation ==
  \A id \in Ids :
    calls[id] > 0 =>
      /\ cbArgs[id].result = results[id]
      /\ cbArgs[id].result \in PayloadsOf(id)
      /\ cbArgs[id].session_id = reqs[id].task.session_id
      /\ cbArgs[id].speech_id = reqs[id].task.speech_id
      /\ cbArgs[id].speech_id = id
      /\ \A l \in Loops :
           Count(loopReady[l], id) + Count(cbStarted[l], id) =
             IF l = reqs[id].task.running_loop THEN 1 ELSE 0

\* C12 witness: two requests of different sessions, audio and loops were both
\* delivered with success payloads, each coroutine run on its own loop.
C12_Witness ==
  \E a, b \in Ids :
    /\ reqs[a].task.session_id = "s1" /\ reqs[b].task.session_id = "s2"
    /\ outcome[a] = "ok" /\ outcome[b] = "ok"
    /\ results[a] # results[b]
    /\ Count(cbStarted["L1"], a) = 1 /\ Count(cbStarted["L2"], b) = 1
    /\ coro[a] = "returned" /\ coro[b] = "returned"

\* A success payload: exactly text, language and segments, each segment
\* exactly start, end and text.
IsSuccessPayload(r) ==
  /\ DOMAIN r = {"text", "language", "segments"}
  /\ \A k \in 1..Len(r.segments) : DOMAIN r.segments[k] = {"start", "end", "text"}

\* A failure payload: exactly the error.
IsFailurePayload(r) == DOMAIN r = {"error"}

\* C13: every payload _recognize_audio returned is a success payload or a
\* failure payload and not both; it is a success payload when transcribe
\* returned and a failure payload when transcribe raised or the model is
\* missing.
C13_SuccessXorFailure ==
  \A id \in Ids :
    /\ results[id] # NoResult <=> outcome[id] # "-"
    /\ results[id] # NoResult =>
         /\ IsSuccessPayload(results[id]) \/ IsFailurePayload(results[id])
         /\ ~(IsSuccessPayload(results[id]) /\ IsFailurePayload(results[id]))
         /\ "error" \in DOMAIN results[id] <=> ~("text" \in DOMAIN results[id])
         /\ outcome[id] = "ok" => IsSuccessPayload(results[id])
         /\ outcome[id] \in {"raised", "unavailable"} => IsFailurePayload(results[id])

\* C13 witness: one request got a success payload and another, whose
\* transcription raised, a failure payload, both handed to their callbacks.
C13_Witness ==
  \E a, b \in Ids :
    /\ outcome[a] = "ok" /\ IsSuccessPayload(results[a]) /\ calls[a] = 1
    /\ outcome[b] = "raised" /\ IsFailurePayload(results[b]) /\ calls[b] = 1

\* The path with no model loaded: a failure payload was returned and handed
\* to the callback.
C13_UnavailableSeen ==
  \E a \in Ids :
    outcome[a] = "unavailable" /\ IsFailurePayload(results[a]) /\ calls[a] = 1

\* A text neither begins nor ends with whitespace.
Trimmed(t) == t = << >> \/ (Head(t) \notin Whitespace /\ t[Len(t)] \notin Whitespace)

\* t is raw with whitespace, and whitespace only, taken off its two ends.
TrimOf(raw, t) ==
  \E a \in 0..Len(raw) : \E b \in a..Len(raw) :
    /\ t = SubSeq(raw, a + 1, b)
    /\ \A k \in (1..a) \cup ((b + 1)..Len(raw)) : raw[k] \in Whitespace

\* C14: for every raw output, the text of the success dict and the text of
\* each of its segments neither begin nor end with whitespace (and are the
\* raw texts less their surrounding whitespace), and the segments are those
\* of the raw output, as many and in the same order.
C14_Stripped ==
  shaping.payload # NoResult =>
    LET raw == shaping.raw
        out == shaping.payload
    IN /\ Trimmed(out.text)
       /\ TrimOf(raw.text, out.text)
       /\ Len(out.segments) = Len(raw.segments)
       /\ \A k \in 1..Len(raw.segments) :
            /\ Trimmed(out.segments[k].text)
            /\ TrimOf(raw.segments[k].text, out.segments[k].text)
            /\ out.segments[k].start = raw.segments[k].start
            /\ out.segments[k].end = raw.segments[k].end

\* C14 witness: a raw text padded on both sides around inner whitespace,
\* and two segments padded on different sides, were shaped.
C14_Witness ==
  /\ shaping.payload # NoResult
  /\ Len(shaping.raw.text) = 5
  /\ shaping.raw.text[1] \in Whitespace /\ shaping.raw.text[5] \in Whitespace
  /\ shaping.payload.text = <<"b", " ", "c">>
  /\ Len(shaping.raw.segments) = 2
  /\ shaping.raw.segments[1].text = <<" ", "a">>
  /\ shaping.raw.segments[2].text = <<"a", "\n">>
  /\ shaping.payload.segments[1].text = <<"a">>
  /\ shaping.payload.segments[2].text = <<"a">>

\* The states of a worker thread inside its while loop.
RunningPcs == {"polling", "transcribing", "waiting"}

\* C15, one step: a worker stops only when it is polling and takes None off
\* the head of its queue; in every other step a running worker is running
\* afterwards, at the next get when a delivery failed (the callback raised,
\* scheduling raised, or the 5 seconds expired) and still in its loop when
\* the transcription failed; a stopped worker stays as it is.
C15_Step ==
  \A i \in Processors, s \in Slots :
    LET t == worker[i][s]
        u == worker'[i][s]
        takesSentinel == t.pc = "polling" /\ queue[i] # << >> /\ Head(queue[i]) = Sentinel
    IN /\ t.pc = "stopped" => u = t
       /\ t.pc \in RunningPcs /\ u.pc = "stopped" =>
            takesSentinel /\ queue'[i] = Tail(queue[i])
       /\ t.pc \in RunningPcs /\ ~takesSentinel => u.pc \in RunningPcs
       /\ t.pc = "none" => u.pc \in {"none", "polling"}
       /\ \A id \in Ids :
            /\ t.task.speech_id = id /\ delivery[id] = "-"
                 /\ delivery'[id] \in {"schedfail", "raised", "timeout"}
                 => u = Thread("polling")
            /\ t.task.speech_id = id /\ outcome[id] = "-" /\ outcome'[id] = "raised"
                 => u.pc \in RunningPcs

\* C15: every step of every worker is as C15_Step says.
C15_StopsOnlyBySentinel == [][C15_Step]_vars

\* C15 witness: a transcription raised, one callback raised, one could not
\* be scheduled and one wait timed out, no sentinel was taken, and the
\* worker is polling an empty queue.
C15_Witness ==
  \E i \in Processors, s \in Slots :
    /\ worker[i][s].pc = "polling"
    /\ queue[i] = << >>
    /\ Count(enq[i], 0) = 0
    /\ \E id \in Ids : outcome[id] = "raised"
    /\ \E a, b, c \in Ids :
         delivery[a] = "raised" /\ delivery[b] = "schedfail" /\ delivery[c] = "timeout"

\* Request id was put on its queue with no None put before it.
QueuedBeforeSentinel(id) ==
  /\ id \in Ids
  /\ \E k \in 1..Len(enq[reqs[id].proc]) :
       enq[reqs[id].proc][k] = id /\ k < FirstSentinel(reqs[id].proc)

\* Request id was dequeued and passed to _recognize_audio.
Recognized(id) == id \in Ids /\ Count(recognized[reqs[id].proc], id) = 1

\* C16: with a fairly scheduled worker, every request put on the queue with
\* no sentinel before it is eventually dequeued and recognized, although
\* the event loops need never run or finish a callback: each wait for a
\* scheduled callback ends after the 5 seconds at the latest.
C16_EventuallyRecognized ==
  \A id \in 1..MaxReq : QueuedBeforeSentinel(id) ~> Recognized(id)

\* C16 witness: the last request was recognized although no callback of
\* the earlier ones ever began to run; every earlier wait timed out.
C16_Witness ==
  /\ Len(reqs) = MaxReq
  /\ Recognized(MaxReq)
  /\ \A l \in Loops : cbStarted[l] = << >>
  /\ \A id \in 1..(MaxReq - 1) : delivery[id] = "timeout" /\ coro[id] = "ready"

\* The workers of instance i that are inside transcribe.
Transcribing(i) == {s \in Slots : worker[i][s].pc = "transcribing"}

\* C17: each instance has its own queue and its own worker: the requests in
\* the queue of an instance, those its worker holds and those it recognized
\* are requests submitted to that instance, recognized in the order they
\* were submitted to it, one at a time; nothing relates the two instances.
C17_OwnQueueAndWorker ==
  \A i \in Processors :
    /\ \A k \in 1..Len(queue[i]) :
         queue[i][k] # Sentinel => reqs[queue[i][k].speech_id].proc = i
    /\ \A s \in Slots :
         worker[i][s].pc \in {"transcribing", "waiting"} =>
           reqs[worker[i][s].task.speech_id].proc = i
    /\ \A k \in 1..Len(recognized[i]) : reqs[recognized[i][k]].proc = i
    /\ recognized[i] \o QueueIds(queue[i]) = enq[i]
    /\ Cardinality(Transcribing(i)) <= 1

\* C17 witness: the workers of the two instances are inside transcribe at
\* the same time, and the one of the second instance is at a request that
\* was submitted after a request still queued at the first instance.
C17_Witness ==
  /\ Transcribing("p1") # {} /\ Transcribing("p2") # {}
  /\ whisper_model = "model"
  /\ \E a, b \in Ids :
       /\ a < b
       /\ reqs[a].proc = "p1" /\ reqs[b].proc = "p2"
       /\ Count(QueueIds(queue["p1"]), a) = 1
       /\ \E s \in Slots : worker["p2"][s].task.speech_id = b

\* Request a was put on the queue of its instance before request b.
SubmittedBefore(a, b) ==
  /\ reqs[a].proc = reqs[b].proc
  /\ \E j, k \in 1..Len(enq[reqs[a].proc]) :
       j < k /\ enq[reqs[a].proc][j] = a /\ enq[reqs[a].proc][k] = b

\* C18: a request is dequeued and recognized only when, for every request
\* submitted before it to the same instance whose callback was scheduled,
\* the wait for that callback is over: its coroutine returned, or raised,
\* or the 5 seconds expired. While a scheduled callback is not done and its
\* wait is not over, no worker of the instance is inside transcribe.
C18_NextWaitsForCallback ==
  \A a \in Ids :
    LET i == reqs[a].proc IN
    /\ \A b \in Ids :
         SubmittedBefore(a, b) /\ Recognized(b) /\ coro[a] # "unscheduled" =>
           \/ delivery[a] = "ok" /\ coro[a] = "returned"
           \/ delivery[a] = "raised" /\ coro[a] = "raised"
           \/ delivery[a] = "timeout"
    /\ coro[a] \in {"ready", "running"} /\ delivery[a] = "-" =>
         /\ Transcribing(i) = {}
         /\ \E s \in Slots : worker[i][s].pc = "waiting" /\ worker[i][s].task.speech_id = a
         /\ \A b \in Ids : SubmittedBefore(a, b) => ~Recognized(b)

\* C18 witness: the second request is inside transcribe after the callback
\* of the first ran to its end, and a third waits in the queue.
C18_Witness ==
  \E i \in Processors, s \in Slots :
    /\ worker[i][s].pc = "transcribing"
    /\ worker[i][s].task.speech_id = 2
    /\ delivery[1] = "ok" /\ coro[1] = "returned"
    /\ Count(QueueIds(queue[i]), 3) = 1

\* Request id was put on its queue after a None.
QueuedBehindSentinel(id) ==
  /\ id \in Ids
  /\ \E k \in 1..Len(enq[reqs[id].proc]) :
       enq[reqs[id].proc][k] = id /\ k > FirstSentinel(reqs[id].proc)

\* C19: recognize_async takes a request whatever the worker's state, also
\* when the worker has stopped; a request put on the queue behind a
\* sentinel got None back like any other, and is in the queue ever after:
\* it is never dequeued, never passed to _recognize_audio, and its callback
\* is never called.
C19_QueuedBehindSentinelStays ==
  /\ \A i \in Processors, sh \in MainShapes :
       created[i] /\ Len(reqs) < MaxReq /\ (\E s \in Slots : worker[i][s].pc = "stopped")
         => ENABLED RecognizeAsync(i, sh)
  /\ \A id \in Ids :
       QueuedBehindSentinel(id) =>
         /\ reqs[id].ret = None
         /\ Count(QueueIds(queue[reqs[id].proc]), id) = 1
         /\ ~Recognized(id)
         /\ outcome[id] = "-" /\ results[id] = NoResult
         /\ calls[id] = 0 /\ coro[id] = "unscheduled" /\ delivery[id] = "-"
         /\ \A l \in Loops : Count(loopReady[l], id) + Count(cbStarted[l], id) = 0

\* C19 witness: the worker stopped at the sentinel after delivering the
\* first request; two requests put behind the sentinel, one of them with a
\* callback, are both in the queue.
C19_Witness ==
  \E i \in Processors :
    /\ \E s \in Slots : worker[i][s].pc = "stopped"
    /\ enq[i] = <<1, 0, 2, 3>>
    /\ delivery[1] = "ok"
    /\ QueueIds(queue[i]) = <<2, 3>>
    /\ reqs[2].task.callback # None

\* Request id was submitted without a callback or without an event loop.
Incomplete(id) == reqs[id].task.callback = None \/ reqs[id].task.running_loop = None

\* C20: a request without a callback or without a loop is recognized like
\* any other (once dequeued it is inside transcribe or has its payload),
\* but no callback is called for it and nothing is scheduled on any loop;
\* when its payload is there it has been dropped and the worker holds the
\* request no longer: it never waits for it and is back at the next get.
C20_IncompleteRequestDropped ==
  \A id \in Ids :
    Incomplete(id) =>
      LET i == reqs[id].proc
          held == {s \in Slots : worker[i][s].task.speech_id = id}
      IN /\ calls[id] = 0 /\ cbArgs[id] = NoArgs /\ coro[id] = "unscheduled"
         /\ \A l \in Loops : Count(loopReady[l], id) + Count(cbStarted[l], id) = 0
         /\ \A s \in held : worker[i][s].pc = "transcribing"
         /\ Recognized(id) =>
              \/ held # {} /\ outcome[id] = "-" /\ results[id] = NoResult
                   /\ delivery[id] = "-"
              \/ held = {} /\ outcome[id] \in {"ok", "raised"}
                   /\ results[id] \in PayloadsOf(id) /\ delivery[id] = "dropped"
         /\ ~Recognized(id) => outcome[id] = "-" /\ delivery[id] = "-"
         /\ \A s \in Slots : worker[i][s].pc \in RunningPcs \cup {"none"}

\* C20 witness: a request without a callback and a request without a loop
\* were recognized and dropped, and the worker is inside transcribe for a
\* third request, submitted after them.
C20_Witness ==
  \E a, b, c \in Ids :
    /\ reqs[a].task.callback = None /\ reqs[b].task.running_loop = None
    /\ reqs[b].task.callback # None
    /\ delivery[a] = "dropped" /\ delivery[b] = "dropped"
    /\ outcome[a] = "ok" /\ outcome[b] = "ok"
    /\ a < c /\ b < c
    /\ \E s \in Slots : worker[reqs[c].proc][s].pc = "transcribing"
                          /\ worker[reqs[c].proc][s].task.speech_id = c

====
